---- MODULE Spec2Model ----
(***************************************************************************)
(* State-machine model of the farterrogator interrogation service          *)
(* (generateTags: cloud / local-hybrid strategies; generateCaption), of    *)
(* the Results presentation pipeline (processedTags / tagString), of the   *)
(* tag database (loadTagDatabase / getCategory) and of ImageUpload's       *)
(* processFiles.                                                           *)
(*                                                                         *)
(* Scores and thresholds are fixed-point numbers in tenths: 9 is 0.9,      *)
(* 10 is 1.0, 15 is 1.5.  NaN is a sentinel outside that range.            *)
(***************************************************************************)
EXTENDS Integers, Sequences, FiniteSets, TLC

VARIABLES
    config,             \* BackendConfig handed to generateTags
    phase,              \* position of the generateTags call
    tagsResult,         \* settlement of the fetchLocalTags promise
    descriptionResult,  \* settlement of the fetchOllamaDescription promise
    settled,            \* order in which the two hybrid branches settled
    responses,          \* what each backend answered (none until it answers)
    requests,           \* network requests issued so far, per backend
    outcome,            \* what generateTags returned or threw
    result,             \* Results props: result.tags
    settings,           \* Results props: settings
    stages,             \* locals of processedTags after filter / sort / slice
    processedTags,      \* value of the processedTags memo
    tagString,          \* value of the tagString memo
    rendered,           \* whether the memos have been computed
    tagDatabase,        \* tagService: the module's Map name -> category
    isLoaded,           \* tagService: the module's flag
    loads,              \* position and end of each loadTagDatabase call
    fetches,            \* fetches of /danbooru_tags.csv issued so far
    lastRead,           \* the text the most recent populating load read
    lookup,             \* the most recent getCategory call and its answer
    captionPhase,       \* position of the generateCaption call
    captionRequests,    \* requests generateCaption has issued, per backend
    captionResponse,    \* what the backend answered to generateCaption
    captionOutcome,     \* what generateCaption returned or threw
    isProcessing,       \* ImageUpload: the isProcessing state
    invocations,        \* ImageUpload: each processFiles invocation
    selectedFiles       \* ImageUpload: files handed to onFilesSelect

vars == << config, phase, tagsResult, descriptionResult, settled, responses,
           requests, outcome, result, settings, stages, processedTags,
           tagString, rendered, tagDatabase, isLoaded, loads, fetches,
           lastRead, lookup, captionPhase, captionRequests, captionResponse,
           captionOutcome, isProcessing, invocations, selectedFiles >>

serviceVars == << config, phase, tagsResult, descriptionResult, settled,
                  responses, requests, outcome >>

pipelineVars == << result, settings, stages, processedTags, tagString, rendered >>

tagVars == << tagDatabase, isLoaded, loads, fetches, lastRead, lookup >>

captionVars == << captionPhase, captionRequests, captionResponse, captionOutcome >>

uploadVars == << isProcessing, invocations, selectedFiles >>

----------------------------------------------------------------------------
(* Bounds of the model *)

MaxTags == 2            \* longest tag list a backend returns
MaxResultTags == 3      \* longest result.tags handed to Results
MaxLoads == 2           \* calls of loadTagDatabase in a run
MaxInvocations == 2     \* invocations of processFiles in a run
MaxFiles == 2           \* longest batch of files handed to processFiles

----------------------------------------------------------------------------
(* Values *)

undefined == "<undefined>"

NaN == 0 - 1000         \* result of Number(x) for a non-numeric x

TagNames == {"1girl", "blue_hair", "solo"}

\* the six values of TagCategory
TagCategories == {"general", "artist", "copyright", "character", "meta", "rating"}

\* enum of the response schema handed to the cloud model
GeminiSchemaCategories == {"general", "character", "style", "technical", "rating"}

\* JavaScript truthiness of a string-or-undefined value
Falsy(s) == s \in {undefined, ""}

\* String.prototype.trim on the endpoint values of the model
Trim(s) == IF s = " " THEN "" ELSE s

\* `!endpoint || endpoint.trim() === ''`
EndpointInvalid(s) == Falsy(s) \/ Trim(s) = ""

RECURSIVE SeqsUpTo(_, _)
SeqsUpTo(S, n) ==
    IF n = 0 THEN {<< >>}
    ELSE LET shorter == SeqsUpTo(S, n - 1)
         IN  shorter \cup {Append(s, x) : s \in {t \in shorter : Len(t) = n - 1}, x \in S}

Range(s) == {s[i] : i \in 1..Len(s)}

DistinctNames(s) == \A i, j \in 1..Len(s) : i # j => s[i].name # s[j].name

----------------------------------------------------------------------------
(* JSON values carried by the model: a tagged record, items used by arrays *)

JUndefined == [t |-> "undefined", items |-> << >>]
JNull == [t |-> "null", items |-> << >>]
JString == [t |-> "string", items |-> << >>]
JArray(items) == [t |-> "array", items |-> items]

\* JavaScript truthiness of a JSON value (the string of the model is non-empty)
Truthy(v) == v.t \in {"string", "array"}

\* raw JSON score values a backend can put in its body
RawNum(n) == [t |-> "num", v |-> n]
RawStr == [t |-> "str", v |-> 0]
RawScores == {RawNum(3), RawNum(9), RawNum(15), RawStr}

\* Number(score)
ToNumber(raw) == IF raw.t = "num" THEN raw.v ELSE NaN

----------------------------------------------------------------------------
(* Array.prototype.sort((a, b) => b.score - a.score) *)

\* the comparator; SortCompare turns a NaN result into +0
CompareDesc(a, b) ==
    IF a.score = NaN \/ b.score = NaN THEN 0 ELSE b.score - a.score

\* mutant: x goes in front of the elements it ties with
RECURSIVE InsertDescBeforeTies(_, _)
InsertDescBeforeTies(s, x) ==
    IF s = << >> THEN << x >>
    ELSE IF CompareDesc(s[1], x) >= 0 THEN << x >> \o s
         ELSE << s[1] >> \o InsertDescBeforeTies(Tail(s), x)

\* insert x behind every element that does not sort after it (stable)
RECURSIVE InsertDesc(_, _)
InsertDesc(s, x) ==
    IF s = << >> THEN << x >>
    ELSE IF CompareDesc(s[1], x) > 0 THEN << x >> \o s
         ELSE << s[1] >> \o InsertDesc(Tail(s), x)

RECURSIVE StableSortDesc(_)
StableSortDesc(s) ==
    IF s = << >> THEN << >>
    ELSE InsertDesc(StableSortDesc(SubSeq(s, 1, Len(s) - 1)), s[Len(s)])

\* the comparator is a consistent comparator for s: equality by it is transitive
ConsistentComparator(s) ==
    \A i, j, k \in 1..Len(s) :
        (CompareDesc(s[i], s[j]) = 0 /\ CompareDesc(s[j], s[k]) = 0)
            => CompareDesc(s[i], s[k]) = 0

PermutationsOf(s) ==
    {[i \in 1..Len(s) |-> s[f[i]]] :
        f \in {g \in [1..Len(s) -> 1..Len(s)] : \A i, j \in 1..Len(s) : i # j => g[i] # g[j]}}

\* the orders sort may leave: the stable order, or an implementation-defined
\* one when the comparator is not consistent
SortOutcomes(s) ==
    IF ConsistentComparator(s) THEN {StableSortDesc(s)} ELSE PermutationsOf(s)

----------------------------------------------------------------------------
(* Backend configurations and answers *)

Endpoints == {undefined, "", " ", "http://host"}

Configs ==
    [type : {"gemini", "local_hybrid"},
     geminiApiKey : {undefined, "", "key"},
     taggerEndpoint : Endpoints,
     ollamaEndpoint : Endpoints,
     ollamaModel : {"", "qwen"}]

\* bodies of the Local Tagger: { tags: { name: score, ... } }
TaggerEntries ==
    {s \in SeqsUpTo([name : TagNames, raw : RawScores], MaxTags) : DistinctNames(s)}

TaggerResponse(kind, tagsKind, entries) ==
    [kind |-> kind, tagsKind |-> tagsKind, entries |-> entries]

TaggerResponses ==
    {TaggerResponse(k, "absent", << >>) :
        k \in {"transport_error", "http_error", "bad_json", "json_null"}}
    \cup {TaggerResponse("json_object", tk, << >>) : tk \in {"absent", "string"}}
    \cup {TaggerResponse("json_object", "mapping", e) : e \in TaggerEntries}

\* bodies of the Captioner: { response: string }
CaptionerResponse(kind, response) == [kind |-> kind, response |-> response]

CaptionerResponses ==
    {CaptionerResponse(k, undefined) :
        k \in {"transport_error", "http_error", "bad_json", "json_null"}}
    \cup {CaptionerResponse("json_object", r) : r \in {undefined, "a girl"}}

\* answers of the cloud model: the call fails, or response.text
GeminiTags ==
    SeqsUpTo([name : TagNames, score : {3, 15}, category : {"general", "style"}], MaxTags)

GeminiResponse(kind, text, tags) == [kind |-> kind, text |-> text, tags |-> tags]

GeminiResponses ==
    {GeminiResponse("transport_error", "undefined", JUndefined)}
    \cup {GeminiResponse("ok", t, JUndefined) : t \in {"undefined", "empty", "invalid", "null"}}
    \cup {GeminiResponse("ok", "object", v) : v \in {JUndefined, JNull, JString}}
    \cup {GeminiResponse("ok", "object", JArray(e)) : e \in GeminiTags}

NoResponse == [kind |-> "none"]

\* JSON.parse(response.text)
JSONParse(resp) ==
    CASE resp.text = "invalid" -> [ok |-> FALSE, isNull |-> FALSE, tags |-> JUndefined]
      [] resp.text = "null"    -> [ok |-> TRUE, isNull |-> TRUE, tags |-> JUndefined]
      [] OTHER                 -> [ok |-> TRUE, isNull |-> FALSE, tags |-> resp.tags]

----------------------------------------------------------------------------
(* Promise settlements and call outcomes *)

\* d is the value slot's content while there is no value
Unstarted(d) == [status |-> "unstarted", value |-> d, reason |-> ""]
Pending(d) == [status |-> "pending", value |-> d, reason |-> ""]
Fulfilled(v) == [status |-> "fulfilled", value |-> v, reason |-> ""]
Rejected(d, why) == [status |-> "rejected", value |-> d, reason |-> why]

IsSettled(p) == p.status \in {"fulfilled", "rejected"}

NoOutcome ==
    [kind |-> "none", tags |-> JUndefined, naturalDescription |-> undefined, message |-> ""]
Returned(tags, description) ==
    [kind |-> "result", tags |-> tags, naturalDescription |-> description, message |-> ""]
Thrown(message) ==
    [kind |-> "error", tags |-> JUndefined, naturalDescription |-> undefined, message |-> message]

----------------------------------------------------------------------------
(* fetchLocalTags *)

\* up to the first await: validate the endpoint, then issue the request
FetchLocalTagsStart(cfg) ==
    IF EndpointInvalid(cfg.taggerEndpoint)
    THEN Rejected(<< >>, "Local Tagger endpoint is invalid or missing.")
    ELSE Pending(<< >>)

\* one Tag per entry of data.tags, category general
TagsOfEntries(entries) ==
    [i \in 1..Len(entries) |->
        [name |-> entries[i].name, score |-> ToNumber(entries[i].raw), category |-> "general"]]

\* the settlements the promise can take once the Local Tagger has answered
FetchLocalTagsSettle(resp) ==
    CASE resp.kind = "transport_error" -> {Rejected(<< >>, "TypeError: Failed to fetch")}
      [] resp.kind = "http_error"      -> {Rejected(<< >>, "Local Tagger Error")}
      [] resp.kind = "bad_json"        -> {Rejected(<< >>, "SyntaxError")}
      [] resp.kind = "json_null"       -> {Rejected(<< >>, "TypeError: data is null")}
      [] OTHER ->
            LET tags == IF resp.tagsKind = "mapping" THEN TagsOfEntries(resp.entries) ELSE << >>
            IN  {Fulfilled(sorted) : sorted \in SortOutcomes(tags)}

----------------------------------------------------------------------------
(* fetchOllamaDescription *)

FetchOllamaDescriptionStart(cfg) ==
    IF EndpointInvalid(cfg.ollamaEndpoint)
    THEN Rejected(undefined, "Ollama endpoint is invalid or missing.")
    ELSE Pending(undefined)

FetchOllamaDescriptionSettle(resp) ==
    CASE resp.kind = "transport_error" -> Rejected(undefined, "TypeError: Failed to fetch")
      [] resp.kind = "http_error"      -> Rejected(undefined, "Ollama Error")
      [] resp.kind = "bad_json"        -> Rejected(undefined, "SyntaxError")
      [] resp.kind = "json_null"       -> Rejected(undefined, "TypeError: data is null")
      [] OTHER                         -> Fulfilled(resp.response)

----------------------------------------------------------------------------
(* generateTagsLocalHybrid *)

\* mutant: Promise.all, which rejects as soon as one promise rejects
AllSettledShortCircuit(tr, dr) ==
    \/ tr.status = "rejected"
    \/ dr.status = "rejected"
    \/ (tr.status = "fulfilled" /\ dr.status = "fulfilled")

\* Promise.allSettled: resumes once every promise has settled
AllSettled(tr, dr) == IsSettled(tr) /\ IsSettled(dr)

\* mutant: throws when either branch was rejected (|| for &&)
HybridOutcomeEitherRejected(tr, dr) ==
    LET tags == IF tr.status = "fulfilled" THEN tr.value ELSE << >>
        description == IF dr.status = "fulfilled" THEN dr.value ELSE undefined
    IN  IF tr.status = "rejected" \/ dr.status = "rejected"
        THEN Thrown("Both services failed.")
        ELSE Returned(JArray(tags), description)

\* mutant: the throw is missing
HybridOutcomeNeverThrows(tr, dr) ==
    LET tags == IF tr.status = "fulfilled" THEN tr.value ELSE << >>
        description == IF dr.status = "fulfilled" THEN dr.value ELSE undefined
    IN  Returned(JArray(tags), description)

\* the code behind the await
HybridOutcome(tr, dr) ==
    LET tags == IF tr.status = "fulfilled" THEN tr.value ELSE << >>
        description == IF dr.status = "fulfilled" THEN dr.value ELSE undefined
    IN  IF tr.status = "rejected" /\ dr.status = "rejected"
        THEN Thrown("Both services failed.")
        ELSE Returned(JArray(tags), description)

----------------------------------------------------------------------------
(* generateTagsGemini *)

\* getGeminiClient throws on a missing key
GeminiKeyMissing(cfg) == Falsy(cfg.geminiApiKey)

\* mutant: the await sits inside the try, so a failed call degrades to no tags
GeminiOutcomeSwallowsFailure(resp) ==
    IF resp.kind = "transport_error" THEN Returned(JArray(<< >>), undefined)
    ELSE IF resp.text \in {"undefined", "empty"} THEN Returned(JArray(<< >>), undefined)
    ELSE LET data == JSONParse(resp)
         IN  IF ~data.ok \/ data.isNull THEN Returned(JArray(<< >>), undefined)
             ELSE IF Truthy(data.tags) THEN Returned(data.tags, undefined)
             ELSE Returned(JArray(<< >>), undefined)

\* the code behind `await ai.models.generateContent`
GeminiOutcome(resp) ==
    IF resp.kind = "transport_error" THEN Thrown("generateContent failed")
    ELSE IF resp.text \in {"undefined", "empty"} THEN Returned(JArray(<< >>), undefined)
    ELSE LET data == JSONParse(resp)
         IN  IF ~data.ok \/ data.isNull THEN Returned(JArray(<< >>), undefined)
             ELSE IF Truthy(data.tags) THEN Returned(data.tags, undefined)
             ELSE Returned(JArray(<< >>), undefined)

----------------------------------------------------------------------------
(* Results: processedTags and tagString *)

\* tag names of the pipeline are character sequences; each has its category
\* and the scores it comes with
PCategoryOf(name) == IF name = << "r" >> THEN "rating" ELSE "general"
PNames == {<< "a", "_", "x", "_", "y" >>, << "b" >>, << "c" >>, << "r" >>}
PScoresOf(name) ==
    CASE name = << "b" >> -> {3, 5}
      [] name = << "c" >> -> {3, NaN}
      [] OTHER            -> {5, 9}
PTags ==
    UNION {{[name |-> n, score |-> sc, category |-> PCategoryOf(n)] : sc \in PScoresOf(n)} :
              n \in PNames}

\* settings.thresholds: a mapping that may lack a category
ThresholdMaps ==
    {th \in UNION {[D -> {0, 4, 8}] : D \in SUBSET {"general", "rating"}} :
        "rating" \in DOMAIN th => th["rating"] = 8}

SettingsSet ==
    [thresholds : ThresholdMaps, topK : {1, 2, 3}, randomize : BOOLEAN,
     removeUnderscores : BOOLEAN]

DefaultThreshold == 5

\* `settings.thresholds[tag.category] || 0.5`: an absent entry and 0 are falsy
Threshold(st, category) ==
    IF category \notin DOMAIN st.thresholds THEN DefaultThreshold
    ELSE IF st.thresholds[category] = 0 THEN DefaultThreshold
    ELSE st.thresholds[category]

\* mutant: the comparison ignores the configured threshold
PassesFilterDefaultOnly(st, tag) == tag.score # NaN /\ tag.score >= DefaultThreshold

\* the filter callback
PassesFilter(st, tag) == tag.score # NaN /\ tag.score >= Threshold(st, tag.category)

\* 1. result.tags.filter(...)
FilterTags(tags, st) == SelectSeq(tags, LAMBDA tag : PassesFilter(st, tag))

\* mutant: the slice keeps one entry too many
SliceOneMore(tags, k) == SubSeq(tags, 1, IF k + 1 < Len(tags) THEN k + 1 ELSE Len(tags))

\* 3. tags.slice(0, settings.topK)
Slice(tags, k) == SubSeq(tags, 1, IF k < Len(tags) THEN k ELSE Len(tags))

\* mutant: the exchange overwrites position i and leaves position j as it was
SwapOverwrites(tags, i, j) == [tags EXCEPT ![i] = tags[j]]

\* [tags[i], tags[j]] = [tags[j], tags[i]]
Swap(tags, i, j) == [tags EXCEPT ![i] = tags[j], ![j] = tags[i]]

\* 4. the Fisher-Yates loop from 1-based position i down to 2; pick[i] is the
\* 1-based position that Math.floor(Math.random() * i) selects
RECURSIVE Shuffle(_, _, _)
Shuffle(tags, i, pick) ==
    IF i <= 1 THEN tags ELSE Shuffle(Swap(tags, i, pick[i]), i - 1, pick)

\* every draw of Math.random for an array of length n
Picks(n) == {p \in [1..n -> 1..(IF n = 0 THEN 1 ELSE n)] : \A i \in 1..n : p[i] <= i}

\* mutant: replace('_', ' ') without the g flag, only the first underscore
RECURSIVE ReplaceFirstUnderscore(_)
ReplaceFirstUnderscore(name) ==
    IF name = << >> THEN << >>
    ELSE IF name[1] = "_" THEN << " " >> \o Tail(name)
    ELSE << name[1] >> \o ReplaceFirstUnderscore(Tail(name))

\* name.replace(/_/g, ' ')
ReplaceUnderscores(name) == [i \in 1..Len(name) |-> IF name[i] = "_" THEN " " ELSE name[i]]

formatTag(st, name) == IF st.removeUnderscores THEN ReplaceUnderscores(name) ELSE name

\* Array.prototype.join(', ') of character sequences
RECURSIVE Join(_)
Join(names) ==
    IF names = << >> THEN << >>
    ELSE IF Len(names) = 1 THEN names[1]
    ELSE names[1] \o << ",", " " >> \o Join(Tail(names))

TagStringOf(tags, st) == Join([i \in 1..Len(tags) |-> formatTag(st, tags[i].name)])

NoStages == [filtered |-> << >>, sorted |-> << >>, truncated |-> << >>]

DefaultSettings ==
    [thresholds |-> [c \in {"general"} |-> 4], topK |-> 1, randomize |-> FALSE,
     removeUnderscores |-> FALSE]

PipelineIdle ==
    /\ result = << >>
    /\ settings = DefaultSettings
    /\ stages = NoStages
    /\ processedTags = << >>
    /\ tagString = << >>
    /\ rendered = FALSE

\* mutant: the shuffle runs whether or not settings.randomize is set
FinalOrderAlwaysShuffled(st, truncated, pick) == Shuffle(truncated, Len(truncated), pick)

\* 4. `if (settings.randomize) { ...shuffle... }`
FinalOrder(st, truncated, pick) ==
    IF st.randomize THEN Shuffle(truncated, Len(truncated), pick) ELSE truncated

\* mutant: the sort is applied to result.tags itself
ResultAfterMemosSortedInPlace(input) == StableSortDesc(input)

\* result.tags behind the memo: filter and slice return new arrays, and the
\* in-place sort and the swaps of the shuffle write to those
ResultAfterMemos(input) == input

\* one evaluation of the two memos
Memos ==
    LET filtered == FilterTags(result, settings)
    IN  \E sorted \in SortOutcomes(filtered) :
          LET truncated == Slice(sorted, settings.topK)
          IN  \E pick \in Picks(Len(truncated)) :
                LET final == FinalOrder(settings, truncated, pick)
                IN  /\ stages' = [filtered |-> filtered, sorted |-> sorted,
                                  truncated |-> truncated]
                    /\ processedTags' = final
                    /\ tagString' = TagStringOf(final, settings)

\* the two memos of a render
Render ==
    /\ ~rendered
    /\ Memos
    /\ result' = ResultAfterMemos(result)
    /\ rendered' = TRUE
    /\ UNCHANGED settings
    /\ UNCHANGED serviceVars
    /\ UNCHANGED tagVars
    /\ UNCHANGED captionVars
    /\ UNCHANGED uploadVars

\* the memos are evaluated again on the same props (a dependency changed
\* identity, or the component was mounted again)
ReRender ==
    /\ rendered
    /\ Memos
    /\ result' = ResultAfterMemos(result)
    /\ UNCHANGED << settings, rendered >>
    /\ UNCHANGED serviceVars
    /\ UNCHANGED tagVars
    /\ UNCHANGED captionVars
    /\ UNCHANGED uploadVars

----------------------------------------------------------------------------
(* tagService: strings are character sequences *)

Whitespace == {" ", "\t", "\r", "\n"}
Digits == << "0", "1", "2", "3", "4", "5", "6", "7", "8", "9" >>

\* String.prototype.startsWith
StartsWith(str, prefix) ==
    Len(str) >= Len(prefix) /\ SubSeq(str, 1, Len(prefix)) = prefix

\* String.prototype.split on a one-character separator
RECURSIVE SplitFrom(_, _, _)
SplitFrom(str, sep, piece) ==
    IF str = << >> THEN << piece >>
    ELSE IF str[1] = sep THEN << piece >> \o SplitFrom(Tail(str), sep, << >>)
    ELSE SplitFrom(Tail(str), sep, Append(piece, str[1]))

Split(str, sep) == SplitFrom(str, sep, << >>)

RECURSIVE TrimStart(_)
TrimStart(str) ==
    IF str # << >> /\ str[1] \in Whitespace THEN TrimStart(Tail(str)) ELSE str

RECURSIVE TrimEnd(_)
TrimEnd(str) ==
    IF str # << >> /\ str[Len(str)] \in Whitespace
    THEN TrimEnd(SubSeq(str, 1, Len(str) - 1)) ELSE str

\* String.prototype.trim
TrimString(str) == TrimEnd(TrimStart(str))

DigitValue(ch) == CHOOSE d \in 0..9 : Digits[d + 1] = ch

IsDigit(ch) == \E d \in 1..10 : Digits[d] = ch

\* the digits str starts with, as a number; acc is the value read so far
RECURSIVE ReadDigits(_, _)
ReadDigits(str, acc) ==
    IF str # << >> /\ IsDigit(str[1])
    THEN ReadDigits(Tail(str), acc * 10 + DigitValue(str[1]))
    ELSE acc

\* parseInt(str, 10) of an unsigned field
ParseInt(str) ==
    LET body == TrimStart(str)
    IN  IF body # << >> /\ IsDigit(body[1]) THEN ReadDigits(body, 0) ELSE NaN

CATEGORY_MAPPING ==
    [id \in {0, 1, 3, 4, 5, 9} |->
        CASE id = 0 -> "general"
          [] id = 1 -> "artist"
          [] id = 3 -> "copyright"
          [] id = 4 -> "character"
          [] id = 5 -> "meta"
          [] id = 9 -> "rating"]

\* `CATEGORY_MAPPING[categoryId] || 'general'`
CategoryOfId(id) ==
    IF id \in DOMAIN CATEGORY_MAPPING THEN CATEGORY_MAPPING[id] ELSE "general"

EmptyDatabase == [name \in {} |-> "general"]

\* mutant: a name already in the Map keeps its category
MapSetIfAbsent(db, name, category) ==
    [n \in DOMAIN db \cup {name} |-> IF n \in DOMAIN db THEN db[n] ELSE category]

\* Map.prototype.set
MapSet(db, name, category) ==
    [n \in DOMAIN db \cup {name} |-> IF n = name THEN category ELSE db[n]]

\* the body of the for loop for one element of lines
ReadLine(db, rawLine) ==
    LET line == TrimString(rawLine)
        parts == Split(line, ",")
    IN  IF line = << >> THEN db
        ELSE IF Len(parts) >= 2
             THEN MapSet(db, parts[1], CategoryOfId(ParseInt(parts[2])))
             ELSE db

\* mutant: the loop gives up control after one line
ReadLinesOneLine(db, lines, from) ==
    IF from > Len(lines) THEN db ELSE ReadLine(db, lines[from])

\* the for loop over lines[from..]
RECURSIVE ReadLines(_, _, _)
ReadLines(db, lines, from) ==
    IF from > Len(lines) THEN db
    ELSE ReadLines(ReadLine(db, lines[from]), lines, from + 1)

\* text.split('\n') and the loop
ParseDatabase(db, text) == ReadLines(db, Split(text, "\n"), 1)

\* contents /danbooru_tags.csv may have
\* '1girl,0,1234,alias'
TextScenario ==
    << "1", "g", "i", "r", "l", ",", "0", ",", "1", "2", "3", "4", ",", "a", "l", "i", "a", "s" >>
\* 'rating:explicit,0\n\nhighres,5\r\nsolo\nsafe,9\n'
TextMixed ==
    << "r", "a", "t", "i", "n", "g", ":", "e", "x", "p", "l", "i", "c", "i", "t", ",", "0", "\n", "\n", "h", "i", "g", "h", "r", "e", "s", ",", "5", "\r", "\n", "s", "o", "l", "o", "\n", "s", "a", "f", "e", ",", "9", "\n" >>
\* 'x,1\nx,4'
TextDuplicate ==
    << "x", ",", "1", "\n", "x", ",", "4" >>
\* ' y,7\nz,abc\nw, 9'
TextOddIds ==
    << " ", "y", ",", "7", "\n", "z", ",", "a", "b", "c", "\n", "w", ",", " ", "9" >>
SourceTexts == {TextScenario, TextMixed, TextDuplicate, TextOddIds}

RatingPrefix == << "r", "a", "t", "i", "n", "g", ":" >>

RatingTokens ==
    {<< "g", "e", "n", "e", "r", "a", "l" >>,
     << "s", "a", "f", "e" >>,
     << "q", "u", "e", "s", "t", "i", "o", "n", "a", "b", "l", "e" >>,
     << "e", "x", "p", "l", "i", "c", "i", "t" >>,
     << "s", "e", "n", "s", "i", "t", "i", "v", "e" >>,
     << "n", "s", "f", "w" >>}

MetaTokens ==
    {<< "h", "i", "g", "h", "r", "e", "s" >>,
     << "a", "b", "s", "u", "r", "d", "r", "e", "s" >>,
     << "4", "k" >>,
     << "8", "k" >>,
     << "m", "a", "s", "t", "e", "r", "p", "i", "e", "c", "e" >>,
     << "b", "e", "s", "t", " ", "q", "u", "a", "l", "i", "t", "y" >>,
     << "c", "o", "m", "i", "c" >>,
     << "m", "o", "n", "o", "c", "h", "r", "o", "m", "e" >>,
     << "g", "r", "e", "y", "s", "c", "a", "l", "e" >>,
     << "l", "o", "w", "r", "e", "s" >>,
     << "b", "a", "d", " ", "q", "u", "a", "l", "i", "t", "y" >>,
     << "w", "o", "r", "s", "t", " ", "q", "u", "a", "l", "i", "t", "y" >>}

SubjectTokens ==
    {<< "1", "g", "i", "r", "l" >>,
     << "1", "b", "o", "y" >>,
     << "2", "g", "i", "r", "l", "s" >>,
     << "2", "b", "o", "y", "s" >>,
     << "m", "u", "l", "t", "i", "p", "l", "e", " ", "g", "i", "r", "l", "s" >>,
     << "m", "u", "l", "t", "i", "p", "l", "e", " ", "b", "o", "y", "s" >>}

\* mutant: the database is consulted after the rating rule
getCategoryRatingFirst(db, tagName) ==
    IF StartsWith(tagName, RatingPrefix) \/ tagName \in RatingTokens THEN "rating"
    ELSE IF tagName \in DOMAIN db THEN db[tagName]
    ELSE IF tagName \in MetaTokens THEN "meta"
    ELSE "general"

\* mutant: the rating: prefix is not looked at
getCategoryNoPrefix(db, tagName) ==
    IF tagName \in DOMAIN db THEN db[tagName]
    ELSE IF tagName \in RatingTokens THEN "rating"
    ELSE IF tagName \in MetaTokens THEN "meta"
    ELSE "general"

getCategory(db, tagName) ==
    IF tagName \in DOMAIN db THEN db[tagName]
    ELSE IF StartsWith(tagName, RatingPrefix) \/ tagName \in RatingTokens THEN "rating"
    ELSE IF tagName \in MetaTokens THEN "meta"
    ELSE IF tagName \in SubjectTokens THEN "general"
    ELSE "general"

\* names getCategory is asked about
LookupNames ==
    {<< "1", "g", "i", "r", "l" >>,
     << "r", "a", "t", "i", "n", "g", ":", "e", "x", "p", "l", "i", "c", "i", "t" >>,
     << "h", "i", "g", "h", "r", "e", "s" >>,
     << "s", "a", "f", "e" >>,
     << "g", "e", "n", "e", "r", "a", "l" >>,
     << "b", "e", "s", "t", " ", "q", "u", "a", "l", "i", "t", "y" >>,
     << "s", "o", "l", "o" >>,
     << "x" >>,
     << "z" >>,
     << "w" >>}

\* inFlight and loadedBefore record what the call found: how many loads were
\* suspended at an await, and whether a load had completed
NoLookup ==
    [name |-> << >>, category |-> "none", inDb |-> FALSE, stored |-> "none",
     inFlight |-> 0, loadedBefore |-> FALSE]

\* a loadTagDatabase call: where it stands, how it ended, and whether it was
\* made after the first call had failed
LoadCall(pc, end, afterFailure) == [pc |-> pc, result |-> end, afterFailure |-> afterFailure]

NotCalled == LoadCall("idle", "none", FALSE)

\* what can make a load fail: the fetch rejects, the status is not ok, or
\* response.text() rejects
FetchFailures == {"transport_error", "http_error"}
ReadFailures == {"unreadable_body"}
Failures == FetchFailures \cup ReadFailures

\* mutant: the catch block throws the error on
AfterCatchRethrows(call, failure) == LoadCall("raised", failure, call.afterFailure)

\* the catch block: log, and the call completes
AfterCatch(call, failure) == LoadCall("returned", failure, call.afterFailure)

\* mutant: the catch block marks the database as loaded
FlagAfterCatchSet(flag) == TRUE

\* isLoaded behind the catch block
FlagAfterCatch(flag) == flag

TagIdle ==
    /\ tagDatabase = EmptyDatabase
    /\ isLoaded = FALSE
    /\ loads = [c \in 1..MaxLoads |-> NotCalled]
    /\ fetches = 0
    /\ lastRead = << >>
    /\ lookup = NoLookup

InFlight(c) == loads[c].pc \in {"fetching", "reading"}

\* loadTagDatabase is called: return at once when loaded, else fetch
CallLoad(c) ==
    /\ loads[c].pc = "idle"
    /\ c > 1 => loads[c - 1].pc # "idle"
    /\ LET after == loads[1].result \in Failures
       IN  IF isLoaded
           THEN /\ loads' = [loads EXCEPT ![c] = LoadCall("returned", "skipped", after)]
                /\ UNCHANGED fetches
           ELSE /\ loads' = [loads EXCEPT ![c] = LoadCall("fetching", "none", after)]
                /\ fetches' = fetches + 1
    /\ UNCHANGED << tagDatabase, isLoaded, lastRead, lookup >>
    /\ UNCHANGED serviceVars
    /\ UNCHANGED pipelineVars
    /\ UNCHANGED captionVars
    /\ UNCHANGED uploadVars

\* the fetch rejects, or answers with a status that is not ok
FetchFails(c) ==
    /\ loads[c].pc = "fetching"
    /\ \E failure \in FetchFailures : loads' = [loads EXCEPT ![c] = AfterCatch(loads[c], failure)]
    /\ isLoaded' = FlagAfterCatch(isLoaded)
    /\ UNCHANGED << tagDatabase, fetches, lastRead, lookup >>
    /\ UNCHANGED serviceVars
    /\ UNCHANGED pipelineVars
    /\ UNCHANGED captionVars
    /\ UNCHANGED uploadVars

\* the fetch answers ok: the call awaits response.text()
FetchAnswers(c) ==
    /\ loads[c].pc = "fetching"
    /\ loads' = [loads EXCEPT ![c].pc = "reading"]
    /\ UNCHANGED << tagDatabase, isLoaded, fetches, lastRead, lookup >>
    /\ UNCHANGED serviceVars
    /\ UNCHANGED pipelineVars
    /\ UNCHANGED captionVars
    /\ UNCHANGED uploadVars

\* response.text() rejects: the body cannot be read
ReadFails(c) ==
    /\ loads[c].pc = "reading"
    /\ \E failure \in ReadFailures : loads' = [loads EXCEPT ![c] = AfterCatch(loads[c], failure)]
    /\ isLoaded' = FlagAfterCatch(isLoaded)
    /\ UNCHANGED << tagDatabase, fetches, lastRead, lookup >>
    /\ UNCHANGED serviceVars
    /\ UNCHANGED pipelineVars
    /\ UNCHANGED captionVars
    /\ UNCHANGED uploadVars

\* response.text() resolves: every line is read and the flag is set
ReadCompletes(c) ==
    /\ loads[c].pc = "reading"
    /\ \E text \in SourceTexts :
         /\ tagDatabase' = ParseDatabase(tagDatabase, text)
         /\ lastRead' = text
    /\ isLoaded' = TRUE
    /\ loads' = [loads EXCEPT ![c] = LoadCall("returned", "loaded", loads[c].afterFailure)]
    /\ UNCHANGED << fetches, lookup >>
    /\ UNCHANGED serviceVars
    /\ UNCHANGED pipelineVars
    /\ UNCHANGED captionVars
    /\ UNCHANGED uploadVars

\* getCategory is called
GetCategory ==
    /\ \E tagName \in LookupNames :
         lookup' = [name |-> tagName,
                    category |-> getCategory(tagDatabase, tagName),
                    inDb |-> tagName \in DOMAIN tagDatabase,
                    stored |-> IF tagName \in DOMAIN tagDatabase
                               THEN tagDatabase[tagName] ELSE "none",
                    inFlight |-> Cardinality({c \in 1..MaxLoads : InFlight(c)}),
                    loadedBefore |-> isLoaded]
    /\ UNCHANGED << tagDatabase, isLoaded, loads, fetches, lastRead >>
    /\ UNCHANGED serviceVars
    /\ UNCHANGED pipelineVars
    /\ UNCHANGED captionVars
    /\ UNCHANGED uploadVars

----------------------------------------------------------------------------
(* generateTags: the call and the settlements it awaits *)

NoRequests == [tagger |-> 0, captioner |-> 0, gemini |-> 0]
NoResponses == [tagger |-> NoResponse, captioner |-> NoResponse, gemini |-> NoResponse]

ServiceIdle ==
    /\ config = [type |-> "gemini", geminiApiKey |-> undefined, taggerEndpoint |-> undefined,
                 ollamaEndpoint |-> undefined, ollamaModel |-> ""]
    /\ phase = "unused"
    /\ tagsResult = Unstarted(<< >>)
    /\ descriptionResult = Unstarted(undefined)
    /\ settled = << >>
    /\ responses = NoResponses
    /\ requests = NoRequests
    /\ outcome = NoOutcome

\* requests after a promise has been started: one fetch unless it rejected at once
Issued(reqs, backend, promise) ==
    IF promise.status = "pending" THEN [reqs EXCEPT ![backend] = @ + 1] ELSE reqs

SettledAtStart(name, promise) == IF IsSettled(promise) THEN << name >> ELSE << >>

\* generateTags with config.type = 'local_hybrid': both branches run to their first await
CallHybrid ==
    /\ phase = "idle"
    /\ config.type = "local_hybrid"
    /\ LET tr == FetchLocalTagsStart(config)
           dr == FetchOllamaDescriptionStart(config)
       IN  /\ tagsResult' = tr
           /\ descriptionResult' = dr
           /\ requests' = Issued(Issued(requests, "tagger", tr), "captioner", dr)
           /\ settled' = SettledAtStart("tagger", tr) \o SettledAtStart("captioner", dr)
    /\ phase' = "hybrid_wait"
    /\ UNCHANGED << config, responses, outcome >>
    /\ UNCHANGED pipelineVars
    /\ UNCHANGED tagVars
    /\ UNCHANGED captionVars
    /\ UNCHANGED uploadVars

\* the Local Tagger answers, or the fetch fails
TaggerSettles ==
    /\ tagsResult.status = "pending"
    /\ \E resp \in TaggerResponses :
         /\ responses' = [responses EXCEPT !.tagger = resp]
         /\ \E p \in FetchLocalTagsSettle(resp) : tagsResult' = p
    /\ settled' = Append(settled, "tagger")
    /\ UNCHANGED << config, phase, descriptionResult, requests, outcome >>
    /\ UNCHANGED pipelineVars
    /\ UNCHANGED tagVars
    /\ UNCHANGED captionVars
    /\ UNCHANGED uploadVars

\* the Captioner answers, or the fetch fails
CaptionerSettles ==
    /\ descriptionResult.status = "pending"
    /\ \E resp \in CaptionerResponses :
         /\ responses' = [responses EXCEPT !.captioner = resp]
         /\ descriptionResult' = FetchOllamaDescriptionSettle(resp)
    /\ settled' = Append(settled, "captioner")
    /\ UNCHANGED << config, phase, tagsResult, requests, outcome >>
    /\ UNCHANGED pipelineVars
    /\ UNCHANGED tagVars
    /\ UNCHANGED captionVars
    /\ UNCHANGED uploadVars

\* generateTagsLocalHybrid resumes behind the await
HybridJoin ==
    /\ phase = "hybrid_wait"
    /\ AllSettled(tagsResult, descriptionResult)
    /\ outcome' = HybridOutcome(tagsResult, descriptionResult)
    /\ phase' = "done"
    /\ UNCHANGED << config, tagsResult, descriptionResult, settled, responses, requests >>
    /\ UNCHANGED pipelineVars
    /\ UNCHANGED tagVars
    /\ UNCHANGED captionVars
    /\ UNCHANGED uploadVars

\* generateTags with any other config.type: generateTagsGemini to its await
CallGemini ==
    /\ phase = "idle"
    /\ config.type # "local_hybrid"
    /\ IF GeminiKeyMissing(config)
       THEN /\ outcome' = Thrown("Gemini API Key is missing. Please enter it in the configuration panel.")
            /\ phase' = "done"
            /\ UNCHANGED requests
       ELSE /\ requests' = [requests EXCEPT !.gemini = @ + 1]
            /\ phase' = "gemini_wait"
            /\ UNCHANGED outcome
    /\ UNCHANGED << config, tagsResult, descriptionResult, settled, responses >>
    /\ UNCHANGED pipelineVars
    /\ UNCHANGED tagVars
    /\ UNCHANGED captionVars
    /\ UNCHANGED uploadVars

\* the cloud model answers, or the call fails
GeminiSettles ==
    /\ phase = "gemini_wait"
    /\ \E resp \in GeminiResponses :
         /\ responses' = [responses EXCEPT !.gemini = resp]
         /\ outcome' = GeminiOutcome(resp)
    /\ phase' = "done"
    /\ UNCHANGED << config, tagsResult, descriptionResult, settled, requests >>
    /\ UNCHANGED pipelineVars
    /\ UNCHANGED tagVars
    /\ UNCHANGED captionVars
    /\ UNCHANGED uploadVars

----------------------------------------------------------------------------
(* generateCaption: the separate captioning operation *)

\* an answer to the one request generateCaption issues: the request fails in
\* transport, or a response arrives with a status (ok or not) and a body
CaptionAnswer(kind, ok, body, response) ==
    [kind |-> kind, ok |-> ok, body |-> body, response |-> response]

NoCaptionAnswer == CaptionAnswer("none", FALSE, "none", undefined)

\* answers of the Captioner to POST /api/generate
OllamaCaptionAnswers ==
    {CaptionAnswer("transport_error", FALSE, "none", undefined)}
    \cup {CaptionAnswer("answered", ok, body, undefined) :
            ok \in BOOLEAN, body \in {"bad_json", "json_null"}}
    \cup {CaptionAnswer("answered", ok, "json_object", r) :
            ok \in BOOLEAN, r \in {undefined, "a girl"}}

\* answers of the cloud model to generateContent: the call fails, or response.text
GeminiCaptionAnswers ==
    {CaptionAnswer("transport_error", FALSE, "none", undefined)}
    \cup {CaptionAnswer("answered", TRUE, "text", t) : t \in {undefined, "", "a girl"}}

NoCaptionRequests == [ollama |-> 0, gemini |-> 0]

NoCaption == [kind |-> "none", value |-> undefined, message |-> ""]
CaptionReturned(value) == [kind |-> "value", value |-> value, message |-> ""]
CaptionThrown(message) == [kind |-> "error", value |-> undefined, message |-> message]

\* the local path behind `await fetch`: response.json(), then data.response;
\* response.ok is not read
OllamaCaptionOutcome(answer) ==
    CASE answer.kind = "transport_error" -> CaptionThrown("TypeError: Failed to fetch")
      [] answer.body = "bad_json"        -> CaptionThrown("SyntaxError")
      [] answer.body = "json_null"       -> CaptionThrown("TypeError: data is null")
      [] OTHER                           -> CaptionReturned(answer.response)

\* the cloud path behind `await ai.models.generateContent`: response.text || ""
GeminiCaptionOutcome(answer) ==
    IF answer.kind = "transport_error" THEN CaptionThrown("generateContent failed")
    ELSE CaptionReturned(IF Falsy(answer.response) THEN "" ELSE answer.response)

CaptionIdle ==
    /\ captionPhase = "unused"
    /\ captionRequests = NoCaptionRequests
    /\ captionResponse = NoCaptionAnswer
    /\ captionOutcome = NoCaption

\* generateCaption is called and runs to its first await, or throws before it
CallCaption ==
    /\ captionPhase = "idle"
    /\ IF config.type = "local_hybrid"
       THEN IF EndpointInvalid(config.ollamaEndpoint)
            THEN /\ captionOutcome' = CaptionThrown("Ollama endpoint is missing.")
                 /\ captionPhase' = "done"
                 /\ UNCHANGED captionRequests
            ELSE /\ captionRequests' = [captionRequests EXCEPT !.ollama = @ + 1]
                 /\ captionPhase' = "ollama_wait"
                 /\ UNCHANGED captionOutcome
       ELSE IF GeminiKeyMissing(config)
            THEN /\ captionOutcome' =
                      CaptionThrown("Gemini API Key is missing. Please enter it in the configuration panel.")
                 /\ captionPhase' = "done"
                 /\ UNCHANGED captionRequests
            ELSE /\ captionRequests' = [captionRequests EXCEPT !.gemini = @ + 1]
                 /\ captionPhase' = "gemini_wait"
                 /\ UNCHANGED captionOutcome
    /\ UNCHANGED captionResponse
    /\ UNCHANGED serviceVars
    /\ UNCHANGED pipelineVars
    /\ UNCHANGED tagVars
    /\ UNCHANGED uploadVars

\* the Captioner answers generateCaption, or the fetch fails
OllamaCaptionSettles ==
    /\ captionPhase = "ollama_wait"
    /\ \E answer \in OllamaCaptionAnswers :
         /\ captionResponse' = answer
         /\ captionOutcome' = OllamaCaptionOutcome(answer)
    /\ captionPhase' = "done"
    /\ UNCHANGED captionRequests
    /\ UNCHANGED serviceVars
    /\ UNCHANGED pipelineVars
    /\ UNCHANGED tagVars
    /\ UNCHANGED uploadVars

\* the cloud model answers generateCaption, or the call fails
GeminiCaptionSettles ==
    /\ captionPhase = "gemini_wait"
    /\ \E answer \in GeminiCaptionAnswers :
         /\ captionResponse' = answer
         /\ captionOutcome' = GeminiCaptionOutcome(answer)
    /\ captionPhase' = "done"
    /\ UNCHANGED captionRequests
    /\ UNCHANGED serviceVars
    /\ UNCHANGED pipelineVars
    /\ UNCHANGED tagVars
    /\ UNCHANGED uploadVars

----------------------------------------------------------------------------
(* ImageUpload: processFiles and the isProcessing state *)

\* what processFiles does with a file: an archive (.zip, .tar) is extracted,
\* an image is resized if needed, anything else is passed over without an await
FileKinds == {"archive", "image", "other"}

\* the batches a handler hands to processFiles: never empty
Batches == SeqsUpTo(FileKinds, MaxFiles) \ {<< >>}

\* the handlers that call processFiles
Sources == {"input", "paste", "drop"}

\* a processFiles invocation: where it stands, who called it, the files it
\* has not dealt with yet, and processedImages.length
Invocation(pc, source, files, images) ==
    [pc |-> pc, source |-> source, files |-> files, images |-> images]

NotInvoked == Invocation("idle", "none", << >>, 0)

UploadIdle ==
    /\ isProcessing = FALSE
    /\ invocations = [i \in 1..MaxInvocations |-> NotInvoked]
    /\ selectedFiles = 0

Running(i) == invocations[i].pc = "running"

\* the files from the first one that makes processFiles wait
RECURSIVE SkipOthers(_)
SkipOthers(files) ==
    IF files = << >> THEN << >>
    ELSE IF files[1] = "other" THEN SkipOthers(Tail(files)) ELSE files

\* the handler can run: the file input exists only while nothing is selected
\* and is disabled while isProcessing, the drop zone exists only while
\* nothing is selected, the paste listener is on the window
HandlerEnabled(source) ==
    CASE source = "input" -> selectedFiles = 0 /\ ~isProcessing
      [] source = "drop"  -> selectedFiles = 0
      [] OTHER            -> TRUE

\* the loop goes on over files until one makes it wait; at the end of the
\* list onFilesSelect gets the images, if any, and the finally block runs
Continue(i, source, files, images, flag) ==
    LET rest == SkipOthers(files)
    IN  IF rest # << >>
        THEN /\ invocations' = [invocations EXCEPT ![i] = Invocation("running", source, rest, images)]
             /\ isProcessing' = flag
             /\ UNCHANGED selectedFiles
        ELSE /\ invocations' = [invocations EXCEPT ![i] = Invocation("done", source, << >>, images)]
             /\ isProcessing' = FALSE
             /\ selectedFiles' = IF images > 0 THEN images ELSE selectedFiles

\* a handler calls processFiles: setIsProcessing(true), then the loop up to
\* its first wait
ProcessFilesStart(i) ==
    /\ invocations[i].pc = "idle"
    /\ i > 1 => invocations[i - 1].pc # "idle"
    /\ \E source \in Sources, files \in Batches :
         /\ HandlerEnabled(source)
         /\ Continue(i, source, files, 0, TRUE)
    /\ UNCHANGED serviceVars
    /\ UNCHANGED pipelineVars
    /\ UNCHANGED tagVars
    /\ UNCHANGED captionVars

\* the wait ends: an archive gave its images, or could not be read (logged by
\* the inner catch), or an image was resized; the loop goes on
AwaitSettles(i) ==
    /\ Running(i)
    /\ LET inv == invocations[i]
       IN  \E extracted \in 0..1 :
             /\ inv.files[1] = "image" => extracted = 1
             /\ inv.images + extracted <= MaxFiles
             /\ Continue(i, inv.source, Tail(inv.files), inv.images + extracted, isProcessing)
    /\ UNCHANGED serviceVars
    /\ UNCHANGED pipelineVars
    /\ UNCHANGED tagVars
    /\ UNCHANGED captionVars

\* resizeImageIfNeeded rejects for an image of the batch: the outer catch
\* logs, and the finally block runs
AwaitRejects(i) ==
    /\ Running(i)
    /\ invocations[i].files[1] = "image"
    /\ invocations' = [invocations EXCEPT ![i] =
                          Invocation("done", invocations[i].source, << >>, invocations[i].images)]
    /\ isProcessing' = FALSE
    /\ UNCHANGED selectedFiles
    /\ UNCHANGED serviceVars
    /\ UNCHANGED pipelineVars
    /\ UNCHANGED tagVars
    /\ UNCHANGED captionVars

----------------------------------------------------------------------------
(* Specifications *)

Init ==
    /\ config \in Configs
    /\ phase = "idle"
    /\ tagsResult = Unstarted(<< >>)
    /\ descriptionResult = Unstarted(undefined)
    /\ settled = << >>
    /\ responses = NoResponses
    /\ requests = NoRequests
    /\ outcome = NoOutcome
    /\ PipelineIdle
    /\ TagIdle
    /\ CaptionIdle
    /\ UploadIdle

Next ==
    \/ CallHybrid
    \/ TaggerSettles
    \/ CaptionerSettles
    \/ HybridJoin
    \/ CallGemini
    \/ GeminiSettles

Spec == Init /\ [][Next]_vars

PipelineInit ==
    /\ ServiceIdle
    /\ result \in SeqsUpTo(PTags, MaxResultTags)
    /\ settings \in SettingsSet
    /\ stages = NoStages
    /\ processedTags = << >>
    /\ tagString = << >>
    /\ rendered = FALSE
    /\ TagIdle
    /\ CaptionIdle
    /\ UploadIdle

PipelineNext ==
    \/ Render
    \/ ReRender

PipelineSpec == PipelineInit /\ [][PipelineNext]_vars

TagInit ==
    /\ ServiceIdle
    /\ PipelineIdle
    /\ TagIdle
    /\ CaptionIdle
    /\ UploadIdle

TagNext ==
    \/ \E c \in 1..MaxLoads : CallLoad(c)
    \/ \E c \in 1..MaxLoads : FetchFails(c)
    \/ \E c \in 1..MaxLoads : FetchAnswers(c)
    \/ \E c \in 1..MaxLoads : ReadFails(c)
    \/ \E c \in 1..MaxLoads : ReadCompletes(c)
    \/ GetCategory

TagSpec == TagInit /\ [][TagNext]_vars

\* generateCaption is called on its own: generateTags is not running
CaptionInit ==
    /\ config \in Configs
    /\ phase = "unused"
    /\ tagsResult = Unstarted(<< >>)
    /\ descriptionResult = Unstarted(undefined)
    /\ settled = << >>
    /\ responses = NoResponses
    /\ requests = NoRequests
    /\ outcome = NoOutcome
    /\ PipelineIdle
    /\ TagIdle
    /\ captionPhase = "idle"
    /\ captionRequests = NoCaptionRequests
    /\ captionResponse = NoCaptionAnswer
    /\ captionOutcome = NoCaption
    /\ UploadIdle

CaptionNext ==
    \/ CallCaption
    \/ OllamaCaptionSettles
    \/ GeminiCaptionSettles

CaptionSpec == CaptionInit /\ [][CaptionNext]_vars

UploadInit ==
    /\ ServiceIdle
    /\ PipelineIdle
    /\ TagIdle
    /\ CaptionIdle
    /\ UploadIdle

UploadNext ==
    \/ \E i \in 1..MaxInvocations : ProcessFilesStart(i)
    \/ \E i \in 1..MaxInvocations : AwaitSettles(i)
    \/ \E i \in 1..MaxInvocations : AwaitRejects(i)

UploadSpec == UploadInit /\ [][UploadNext]_vars

----------------------------------------------------------------------------
(* Properties of the hybrid join *)

Hybrid == config.type = "local_hybrid"

OneGirl == << [name |-> "1girl", score |-> 9, category |-> "general"] >>

\* C1: when exactly one hybrid branch succeeds and the other fails, in either
\* settling order, generateTags returns the surviving branch's data and does
\* not throw: tagger-only gives its tags and no naturalDescription,
\* captioner-only gives the description and an empty tag list.
C1_PartialFailureReturnsSurvivor ==
    (Hybrid /\ phase = "done") =>
        /\ (tagsResult.status = "fulfilled" /\ descriptionResult.status = "rejected")
              => outcome = Returned(JArray(tagsResult.value), undefined)
        /\ (tagsResult.status = "rejected" /\ descriptionResult.status = "fulfilled")
              => outcome = Returned(JArray(<< >>), descriptionResult.value)

\* the Captioner failed first, then the Local Tagger resolved { "1girl": 0.9 }
C1_Witness ==
    /\ Hybrid /\ phase = "done"
    /\ settled = << "captioner", "tagger" >>
    /\ descriptionResult.status = "rejected"
    /\ responses.captioner.kind = "http_error"
    /\ outcome = Returned(JArray(OneGirl), undefined)

\* C2: the hybrid strategy throws exactly when both branches were rejected.
C2_ThrowsIffBothFail ==
    (Hybrid /\ phase = "done") =>
        (outcome.kind = "error"
            <=> (tagsResult.status = "rejected" /\ descriptionResult.status = "rejected"))

\* both requests were issued and both failed
C2_Witness ==
    /\ Hybrid /\ phase = "done"
    /\ requests.tagger = 1 /\ requests.captioner = 1
    /\ tagsResult.status = "rejected" /\ descriptionResult.status = "rejected"
    /\ outcome = Thrown("Both services failed.")

\* C3: the hybrid strategy has no outcome, result or error, while a branch is
\* still unsettled.
C3_JoinWaitsForBoth ==
    (Hybrid /\ outcome.kind # "none") =>
        (IsSettled(tagsResult) /\ IsSettled(descriptionResult))

\* the Captioner failed while the Local Tagger request was in flight, and the
\* outcome came only after the Local Tagger had answered
C3_Witness ==
    /\ Hybrid /\ outcome.kind = "result"
    /\ requests.tagger = 1
    /\ settled = << "captioner", "tagger" >>
    /\ descriptionResult.status = "rejected"
    /\ tagsResult.status = "fulfilled"
    /\ Len(tagsResult.value) = 2

----------------------------------------------------------------------------
(* Properties of configuration checking *)

\* a required field of the selected variant is missing or empty
MissingRequiredField(cfg) ==
    IF cfg.type = "local_hybrid"
    THEN Falsy(cfg.taggerEndpoint) \/ Falsy(cfg.ollamaEndpoint) \/ Falsy(cfg.ollamaModel)
    ELSE Falsy(cfg.geminiApiKey)

ConfigurationErrorMessages ==
    {"Gemini API Key is missing. Please enter it in the configuration panel.",
     "Local Tagger endpoint is invalid or missing.",
     "Ollama endpoint is invalid or missing."}

\* C4: when a required field of the selected variant is missing or empty, no
\* network request has been issued by the time generateTags reports failure.
C4_NoRequestBeforeConfigurationError ==
    (MissingRequiredField(config) /\ outcome.kind = "error") => requests = NoRequests

\* C5: when a required field of the selected variant is missing or empty,
\* generateTags ends in an error naming the field, never in a result.
C5_ConfigurationErrorSurfaced ==
    (MissingRequiredField(config) /\ phase = "done") =>
        (outcome.kind = "error" /\ outcome.message \in ConfigurationErrorMessages)

----------------------------------------------------------------------------
(* Properties of the cloud strategy *)

Cloud == config.type # "local_hybrid"

\* the payload is an object whose tags member is an array
WellShapedPayload(resp) == resp.text = "object" /\ resp.tags.t = "array"

\* C6: when the cloud call succeeds but its payload is empty or does not have
\* the expected shape, generateTags returns a result with no tags.
C6_MalformedPayloadGivesNoTags ==
    (Cloud /\ phase = "done" /\ responses.gemini.kind = "ok"
        /\ ~WellShapedPayload(responses.gemini))
        => outcome = Returned(JArray(<< >>), undefined)

\* C7: a failed cloud call ends generateTags in an error, never in a result,
\* and the request is issued once.
C7_TransportFailurePropagates ==
    /\ requests.gemini <= 1
    /\ (Cloud /\ responses.gemini.kind = "transport_error") =>
          (phase = "done" /\ outcome.kind = "error" /\ requests.gemini = 1)

C7_Witness ==
    /\ Cloud /\ phase = "done"
    /\ responses.gemini.kind = "transport_error"
    /\ outcome = Thrown("generateContent failed")
    /\ requests.gemini = 1

\* C8: every Tag of a result returned by either strategy has a score in [0,1]
\* and one of the six categories.
C8_TagsWellFormed ==
    (outcome.kind = "result" /\ outcome.tags.t = "array") =>
        \A i \in 1..Len(outcome.tags.items) :
            /\ outcome.tags.items[i].score \in 0..10
            /\ outcome.tags.items[i].category \in TagCategories

----------------------------------------------------------------------------
(* Properties of the presentation pipeline *)

\* the threshold the settings configure for a category, 0.5 when they have none
ConfiguredThreshold(st, category) ==
    IF category \in DOMAIN st.thresholds THEN st.thresholds[category] ELSE 5

MeetsConfigured(st, tag) == tag.score >= ConfiguredThreshold(st, tag.category)

\* C9: the filter step keeps a tag exactly when its score is at least the
\* threshold configured for its category (0.5 only when none is configured),
\* for every configured threshold including 0.
C9_FilterKeepsIffAtLeastThreshold ==
    rendered =>
        stages.filtered = SelectSeq(result, LAMBDA tag : MeetsConfigured(settings, tag))

\* C10: every tag of the pipeline output has a score at least the threshold of
\* its category, or at least 0.5 when the category has none.
C10_OutputMeetsThreshold ==
    rendered =>
        \A i \in 1..Len(processedTags) : MeetsConfigured(settings, processedTags[i])

\* a shuffled output of two tags, one held to a configured 0.8 and one to the
\* default, out of an input that also had a tag below its threshold
C10_Witness ==
    /\ rendered
    /\ settings.randomize
    /\ DOMAIN settings.thresholds = {"general"}
    /\ settings.thresholds["general"] = 8
    /\ Len(processedTags) = 2
    /\ Len(result) = 3
    /\ \E i, j \in 1..2 :
         /\ processedTags[i].category = "general"
         /\ processedTags[j].category = "rating"

Min(a, b) == IF a < b THEN a ELSE b

Count(s, x) == Cardinality({i \in 1..Len(s) : s[i] = x})

\* s holds the same elements as t, each as often
SameBag(s, t) == \A x \in Range(s) \cup Range(t) : Count(s, x) = Count(t, x)

Descending(s) == \A i \in 1..(Len(s) - 1) : s[i].score >= s[i + 1].score

\* out holds Len(out) highest-scored elements of s
TopOf(out, s) ==
    /\ \A x \in Range(out) : Count(out, x) <= Count(s, x)
    /\ \A x \in Range(s) :
          Count(out, x) < Count(s, x) => \A i \in 1..Len(out) : out[i].score >= x.score

PTag(name, score) == [name |-> name, score |-> score, category |-> PCategoryOf(name)]
TagA == PTag(<< "a", "_", "x", "_", "y" >>, 9)
TagB == PTag(<< "b" >>, 5)
TagC == PTag(<< "c" >>, 3)

ScenarioSettings(st) ==
    /\ DOMAIN st.thresholds = {"general"}
    /\ st.thresholds["general"] = 4
    /\ st.topK = 2
    /\ ~st.randomize

\* C11: with randomize off the output is the first topK entries of the filtered
\* tags in descending score order, so it is no longer than min(topK, number of
\* tags meeting their threshold); thresholds {general: 0.4}, topK 2 and tags
\* [(a,0.9),(b,0.5),(c,0.3)] give [a,b].
C11_OutputIsTopKOfFiltered ==
    (rendered /\ ~settings.randomize) =>
        /\ Len(processedTags) = Min(settings.topK, Len(stages.filtered))
        /\ Len(processedTags)
              <= Min(settings.topK,
                     Len(SelectSeq(result, LAMBDA tag : MeetsConfigured(settings, tag))))
        /\ Descending(processedTags)
        /\ TopOf(processedTags, stages.filtered)
        /\ (result = << TagA, TagB, TagC >> /\ ScenarioSettings(settings))
              => processedTags = << TagA, TagB >>

C11_Witness ==
    /\ rendered
    /\ result = << TagA, TagB, TagC >>
    /\ ScenarioSettings(settings)
    /\ stages.filtered = << TagA, TagB >>
    /\ processedTags = << TagA, TagB >>

\* C12: with randomize on, the output holds exactly the tags that survived
\* filter, sort and truncate, each as often: the shuffle only permutes.
C12_ShuffleOnlyPermutes ==
    (rendered /\ settings.randomize) => SameBag(processedTags, stages.truncated)

\* three surviving tags came out in another order than they went in
C12_Witness ==
    /\ rendered /\ settings.randomize
    /\ Len(stages.truncated) = 3
    /\ processedTags # stages.truncated
    /\ processedTags[1] = stages.truncated[2]
    /\ processedTags[2] = stages.truncated[3]

\* C13: with randomize off, evaluating the pipeline again on the same result
\* and settings gives the same ordered output and the same export string.
C13_DeterministicWithoutRandomize ==
    [][(rendered /\ ~settings.randomize)
          => (processedTags' = processedTags /\ tagString' = tagString)]_vars

\* an output of three tags, two of them tied, computed with randomize off
C13_Witness ==
    /\ rendered /\ ~settings.randomize
    /\ Len(processedTags) = 3
    /\ processedTags[2].score = processedTags[3].score
    /\ processedTags[2].name # processedTags[3].name

\* the display name of a tag: every underscore a space when removeUnderscores
DisplayName(name, remove) ==
    [i \in 1..Len(name) |-> IF remove /\ name[i] = "_" THEN " " ELSE name[i]]

\* the names, in order, with ", " between them
RECURSIVE Joined(_, _)
Joined(tags, remove) ==
    IF tags = << >> THEN << >>
    ELSE LET front == Joined(SubSeq(tags, 1, Len(tags) - 1), remove)
             last == DisplayName(tags[Len(tags)].name, remove)
         IN  IF Len(tags) = 1 THEN last ELSE front \o << ",", " " >> \o last

\* C14: the export string is the display names of the final sequence, in its
\* order, joined with ", " (underscores replaced by spaces exactly when
\* removeUnderscores is set), and no Tag's stored name is altered.
C14_ExportString ==
    rendered =>
        /\ tagString = Joined(processedTags, settings.removeUnderscores)
        /\ \A i \in 1..Len(processedTags) : processedTags[i] \in Range(result)

\* a shuffled output whose first name has two underscores, exported with spaces
C14_Witness ==
    /\ rendered /\ settings.randomize /\ settings.removeUnderscores
    /\ Len(processedTags) = 2
    /\ processedTags[1].name = << "a", "_", "x", "_", "y" >>
    /\ processedTags[2].name = << "r" >>
    /\ stages.truncated[1].name = << "r" >>
    /\ tagString = << "a", " ", "x", " ", "y", ",", " ", "r" >>

----------------------------------------------------------------------------
(* Properties of the tag category resolver *)

NameRatingExplicit == << "r", "a", "t", "i", "n", "g", ":", "e", "x", "p", "l", "i", "c", "i", "t" >>
Name1girl == << "1", "g", "i", "r", "l" >>
NameHighres == << "h", "i", "g", "h", "r", "e", "s" >>

\* the answer of the heuristic rules and the default, in their order
HeuristicCategory(name) ==
    IF StartsWith(name, RatingPrefix) \/ name \in RatingTokens THEN "rating"
    ELSE IF name \in MetaTokens THEN "meta"
    ELSE "general"

\* C15: getCategory answers with the category stored in the database whenever
\* the name is in it, whatever heuristic rule the name also matches.
C15_StoredCategoryWins ==
    lookup.inDb => lookup.category = lookup.stored

\* rating:explicit is stored as general and resolves to general
C15_Witness ==
    /\ lookup.name = NameRatingExplicit
    /\ lookup.inDb
    /\ lookup.stored = "general"
    /\ lookup.category = "general"

\* C16: for a name that is not in the database getCategory answers rating for
\* a rating-prefixed name or rating token, else meta for a meta token, else
\* general; every answer is one of the six categories.
C16_HeuristicFallback ==
    lookup.category # "none" =>
        /\ lookup.category \in TagCategories
        /\ ~lookup.inDb => lookup.category = HeuristicCategory(lookup.name)

\* rating:explicit resolves to rating against the empty database
C16_Witness ==
    /\ tagDatabase = EmptyDatabase
    /\ lookup.name = NameRatingExplicit
    /\ ~lookup.inDb
    /\ lookup.category = "rating"

\* the records of a text: its non-empty lines with at least two fields
RecordsOf(text) ==
    LET lines == Split(text, "\n")
        fields == [i \in 1..Len(lines) |-> Split(TrimString(lines[i]), ",")]
    IN  SelectSeq(fields, LAMBDA parts : Len(parts) >= 2)

RecordCategory(rec) == CategoryOfId(ParseInt(rec[2]))

Succeeded == {c \in 1..MaxLoads : loads[c].result = "loaded"}

\* C17 as claimed: after a successful load every record maps its name to the
\* category of its own id (stated for runs in which one load has populated
\* the database).
C17_EveryRecordMapped ==
    Cardinality(Succeeded) = 1 =>
        \A i \in 1..Len(RecordsOf(lastRead)) :
            LET rec == RecordsOf(lastRead)[i]
            IN  rec[1] \in DOMAIN tagDatabase /\ tagDatabase[rec[1]] = RecordCategory(rec)

\* C17: after a successful load every name that is field 0 of a record is
\* mapped to the category the id table gives for field 1 of the last record
\* with that name (ids not in the table give general); "1girl,0,1234,alias"
\* makes getCategory("1girl") general.
C17_LastRecordOfNameMapped ==
    Succeeded # {} =>
        LET recs == RecordsOf(lastRead)
        IN  /\ \A i \in 1..Len(recs) :
                  (\A j \in (i + 1)..Len(recs) : recs[j][1] # recs[i][1])
                      => /\ recs[i][1] \in DOMAIN tagDatabase
                         /\ tagDatabase[recs[i][1]] = RecordCategory(recs[i])
            /\ lastRead = TextScenario => getCategory(tagDatabase, Name1girl) = "general"

\* a text with two records for x was read: the later one decides
C17_Witness ==
    /\ Cardinality(Succeeded) = 1
    /\ lastRead = TextDuplicate
    /\ tagDatabase = [n \in {<< "x" >>} |-> "character"]

----------------------------------------------------------------------------
(* Properties of loadTagDatabase *)

FailedLoads == {c \in 1..MaxLoads : loads[c].result \in Failures}

\* every call made after the first one was made once the first had failed
LaterCallsFollowFailure ==
    \A c \in 2..MaxLoads : loads[c].pc # "idle" => loads[c].afterFailure

\* C18 as claimed: once a load has failed the database is empty and lookups
\* are answered by the heuristic rules (stated for runs in which every later
\* call was made after the failure).
C18_DatabaseEmptyAfterFailure ==
    (loads[1].result \in Failures /\ LaterCallsFollowFailure) =>
        /\ \A c \in 1..MaxLoads : loads[c].pc # "raised"
        /\ tagDatabase = EmptyDatabase

\* What loadTagDatabase keeps of C18: a failed load never raises to its caller,
\* and for as long as no load has succeeded the database is empty and every
\* lookup is answered by the heuristic rules or the default.
C18_FailureIsSilentAndWritesNothing ==
    /\ \A c \in 1..MaxLoads : loads[c].pc # "raised"
    /\ Succeeded = {} =>
          /\ tagDatabase = EmptyDatabase
          /\ ~lookup.inDb
          /\ lookup.category # "none" => lookup.category = HeuristicCategory(lookup.name)

\* one load failed on its body, the next on its status, and highres was then
\* resolved by the meta rule
C18_Witness ==
    /\ loads[1] = LoadCall("returned", "unreadable_body", FALSE)
    /\ loads[2] = LoadCall("returned", "http_error", TRUE)
    /\ lookup.name = NameHighres
    /\ lookup.category = "meta"

\* C19 as claimed: a call made after the initial load has failed neither
\* fetches the source nor populates the database.
C19_NoFetchAfterFailedLoad ==
    /\ (\A c \in 1..MaxLoads : loads[c].afterFailure => loads[c].result = "skipped")
    /\ (loads[1].result \in Failures /\ LaterCallsFollowFailure) => fetches = 1

\* What loadTagDatabase does instead of C19: a failed load leaves isLoaded
\* false and the database empty only until a load succeeds: a call made after
\* the failure returns without fetching only if a load has succeeded by then,
\* and otherwise fetches again.
C19_FailedLoadIsRetried ==
    /\ Succeeded = {} => (~isLoaded /\ tagDatabase = EmptyDatabase)
    /\ \A c \in 1..MaxLoads :
          (loads[c].afterFailure /\ loads[c].result = "skipped") => Succeeded # {}
    /\ \A c \in 1..MaxLoads :
          (loads[c].afterFailure /\ Succeeded = {}) => fetches >= c

\* the first call failed, the second was made afterwards, fetched again and
\* populated the database
C19_Witness ==
    /\ loads[1].result = "transport_error"
    /\ loads[2] = LoadCall("returned", "loaded", TRUE)
    /\ fetches = 2
    /\ isLoaded
    /\ tagDatabase # EmptyDatabase

\* C20: no two loads are in flight at once: a call made while an earlier call
\* awaits its fetch does not start a second fetch.
C20_NoConcurrentLoads ==
    Cardinality({c \in 1..MaxLoads : InFlight(c)}) <= 1

----------------------------------------------------------------------------
(* Properties of generateCaption *)

\* the request failed in transport, or the answer's status is not 2xx
CaptionRequestFailed(answer) ==
    \/ answer.kind = "transport_error"
    \/ (answer.kind = "answered" /\ ~answer.ok)

\* C21: generateCaption issues at most one request, and a transport failure
\* or a non-2xx answer, on the cloud and on the local path, ends it in an
\* error, never in a returned description.
C21_CaptionFailureSurfaced ==
    /\ captionRequests.ollama + captionRequests.gemini <= 1
    /\ (captionPhase = "done" /\ CaptionRequestFailed(captionResponse))
          => captionOutcome.kind = "error"

----------------------------------------------------------------------------
(* Properties of hybrid response bodies *)

\* a 2xx answer of the Local Tagger whose body is not { tags: { name: score } }
MalformedTaggerBody(resp) ==
    \/ resp.kind \in {"bad_json", "json_null"}
    \/ (resp.kind = "json_object" /\ resp.tagsKind # "mapping")

\* a 2xx answer of the Captioner whose body has no response string
MalformedCaptionerBody(resp) ==
    \/ resp.kind \in {"bad_json", "json_null"}
    \/ (resp.kind = "json_object" /\ resp.response = undefined)

\* C22: on the hybrid path a 2xx answer with a malformed body fails its
\* branch, as a network error does, so a malformed Local Tagger body together
\* with a failed Captioner ends generateTags in an error and not in an empty
\* result.
C22_MalformedBodyFailsBranch ==
    Hybrid =>
        /\ MalformedTaggerBody(responses.tagger) => tagsResult.status = "rejected"
        /\ MalformedCaptionerBody(responses.captioner)
              => descriptionResult.status = "rejected"
        /\ (phase = "done" /\ MalformedTaggerBody(responses.tagger)
                /\ descriptionResult.status = "rejected")
              => outcome.kind = "error"

----------------------------------------------------------------------------
(* Properties of the hybrid merge *)

\* a >= b on numbers, false when either is NaN
AtLeast(a, b) == a # NaN /\ b # NaN /\ a >= b

\* one Tag per name -> score entry of the body, category general
TagOfEntry(entry) ==
    [name |-> entry.name, score |-> ToNumber(entry.raw), category |-> "general"]

EntriesAnswered == IF responses.tagger.tagsKind = "mapping" THEN responses.tagger.entries ELSE << >>

\* C23: when both hybrid branches succeed, the result's tags are the Local
\* Tagger's entries, one Tag of category general per entry and no other,
\* ordered by score descending, and naturalDescription is what the Captioner
\* answered.
C23_BothSucceedMerge ==
    (Hybrid /\ phase = "done" /\ tagsResult.status = "fulfilled"
        /\ descriptionResult.status = "fulfilled") =>
        /\ outcome.kind = "result"
        /\ outcome.tags.t = "array"
        /\ SameBag(outcome.tags.items,
                   [i \in 1..Len(EntriesAnswered) |-> TagOfEntry(EntriesAnswered[i])])
        /\ \A i \in 1..(Len(outcome.tags.items) - 1) :
              AtLeast(outcome.tags.items[i].score, outcome.tags.items[i + 1].score)
        /\ outcome.naturalDescription = responses.captioner.response

----------------------------------------------------------------------------
(* Properties of the sort step *)

\* the elements of s that have score v, in the order of s
WithScore(s, v) ==
    LET HasScore(tag) == tag.score = v
    IN  SelectSeq(s, HasScore)

\* the elements of the input that the filter kept and that have score v, in
\* input order
KeptWithScore(v) ==
    LET Kept(tag) == tag.score = v /\ tag \in Range(stages.filtered)
    IN  SelectSeq(result, Kept)

Scores(s) == {s[i].score : i \in 1..Len(s)}

\* C24: the sort step orders the filtered tags by score descending and keeps
\* tags of equal score in the relative order they had in result.tags, and the
\* truncation keeps the first topK of that order, so input order decides which
\* of several tied tags survives.
C24_SortIsStable ==
    rendered =>
        /\ SameBag(stages.sorted, stages.filtered)
        /\ Descending(stages.sorted)
        /\ \A v \in Scores(result) : WithScore(stages.sorted, v) = KeptWithScore(v)
        /\ stages.truncated =
              SubSeq(stages.sorted, 1, Min(settings.topK, Len(stages.sorted)))

\* b and a_x_y tie at 0.5, b came first in result.tags, and topK 1 kept b
C24_Witness ==
    /\ rendered
    /\ ~settings.randomize
    /\ settings.topK = 1
    /\ result = << PTag(<< "b" >>, 5), PTag(<< "a", "_", "x", "_", "y" >>, 5) >>
    /\ processedTags = << PTag(<< "b" >>, 5) >>

----------------------------------------------------------------------------
(* Frame of the presentation pipeline *)

----------------------------------------------------------------------------
(* Properties of lookups during a load *)

\* C25: wherever a getCategory call can run, the database is either as it
\* was before any load (and the call is answered by the heuristic rules or
\* the default) or holds a name for every record of a load that has
\* completed; no call finds a table that a load has filled in part.
C25_NoPartialTable ==
    /\ Succeeded = {} => tagDatabase = EmptyDatabase
    /\ Succeeded # {} =>
          \A i \in 1..Len(RecordsOf(lastRead)) :
              RecordsOf(lastRead)[i][1] \in DOMAIN tagDatabase
    /\ (lookup.category # "none" /\ ~lookup.loadedBefore) =>
          /\ ~lookup.inDb
          /\ lookup.category = HeuristicCategory(lookup.name)

\* highres was looked up while the first load awaited response.text(), and
\* the meta rule answered
C25_Witness ==
    /\ loads[1].pc = "reading"
    /\ lookup.inFlight = 1
    /\ lookup.name = NameHighres
    /\ ~lookup.inDb
    /\ lookup.category = "meta"

\* C26: the database is written by at most one load, and once isLoaded is
\* true its contents never change.
C26_WrittenOnce ==
    /\ [](Cardinality(Succeeded) <= 1)
    /\ [][isLoaded => tagDatabase' = tagDatabase]_vars

----------------------------------------------------------------------------
(* Properties of ImageUpload *)

\* C28: isProcessing is true whenever a processFiles invocation is still in
\* flight, also when another invocation finishes meanwhile, and false once
\* every invocation has finished.
C28_FlagCoversEveryInvocation ==
    isProcessing <=> (\E i \in 1..MaxInvocations : Running(i))

====
